---- MODULE Spec2Model ----
(***************************************************************************)
(* The resilience layer of the LLM platform: the CircuitBreaker class      *)
(* (webapp/src/shared/utils/circuit-breaker.ts) and the LLMService that    *)
(* puts a rate limiter and the breaker in front of the remote model call.  *)
(*                                                                         *)
(* JavaScript runs each handler to its next await without interruption, so *)
(* one action is one synchronous stretch of code: the part of execute() up *)
(* to `await operation()`, the continuation that runs onSuccess or         *)
(* onFailure, a timer callback, a manual override.  All clock reads inside *)
(* one stretch return the same instant `now`.  The breaker's timestamps    *)
(* lastFailureTime, lastSuccessTime and stateChangedAt are written and     *)
(* reported by getMetrics() but never read by a decision; they are left    *)
(* out.  The RateLimiter class is not part of the sources at hand; its     *)
(* consume() is the token bucket the specification describes.              *)
(*                                                                         *)
(* batchAnalyze() is followed chunk by chunk; each analyzeCode() promise   *)
(* of a chunk settles in one of the ways analyzeCode() can end, in any     *)
(* order.  performCodeAnalysis() and calculateConfidence() are functions   *)
(* of the model's answer; the confidence is computed on IEEE-754 doubles,  *)
(* bit by bit, as a JavaScript engine does.                                *)
(***************************************************************************)
EXTENDS Integers, Sequences, FiniteSets, TLC

\* ---------------------------------------------------------------- constants
\* LLMService constructor: new CircuitBreaker({failureThreshold: 5, ...})
FailureThreshold == 5
\* shouldTrip: this.options.minimumThroughput || 10
MinimumThroughput == 10
\* shouldTrip: this.options.expectedErrorRate || 0.5, kept as a fraction
ExpectedErrorRateNum == 1
ExpectedErrorRateDen == 2
\* LLMService constructor: recoveryTimeout: 60000 (milliseconds)
RecoveryTimeout == 60000
\* startMonitoring: this.totalRequests > 1000
HighWaterMark == 1000
\* LLMService constructor: new RateLimiter({tokensPerInterval: 100, interval: 60000})
TokensPerInterval == 100
Interval == 60000
\* batchAnalyze: const batchSize = 5
BatchSize == 5

\* ------------------------------------------------------------------- bounds
\* concurrent callers of execute()
NumCalls == 2
\* calls admitted through the gate in one behaviour
MaxAdmissions == 4
\* the clock advances in steps of TimeStep milliseconds up to MaxTime
TimeStep == 30000
MaxTime == 120000

\* the sequential scenario: the number of execute() calls in a row
SeqCalls == 10
\* the service is observed from a rate-limit window with this many tokens left
StartTokens == 1
\* analyzeCode() calls started in one behaviour
MaxRequests == 3

\* the longest issues / suggestions array in a model answer
MaxItems == 2

\* the longest list handed to batchAnalyze()
MaxBatch == 7

Calls == 1..NumCalls

\* nextAttempt?: Date -- the undefined value
NoDate == -1

VARIABLES
    state,           \* CircuitBreaker.state
    failureCount,    \* CircuitBreaker.failureCount
    successCount,    \* CircuitBreaker.successCount
    totalRequests,   \* CircuitBreaker.totalRequests
    nextAttempt,     \* CircuitBreaker.nextAttempt (NoDate when undefined)
    now,             \* the clock (new Date(), Date.now())
    calls,           \* the execute() calls: position and outcome of each caller
    emitted,         \* the events emitted by the handler that ran last
    last,            \* the handler that ran last, and for which caller
    hist,            \* history: calls admitted / succeeded / failed since the last reset
    admissions,      \* history: calls admitted in this behaviour
    limiter,         \* LLMService.rateLimiter: tokens left, start of the window
    svc,             \* the analyzeCode() calls: position of each caller
    observed,        \* the metrics observation made by the handler that ran last
    requests,        \* history: analyzeCode() calls started in this behaviour
    thrown,          \* what analyzeCode() handed to its caller in the handler that ran last
    batch,           \* the batchAnalyze() call: its arguments, locals and position
    analysis,        \* a model answer under performCodeAnalysis(): input and outcome
    health           \* the getModelHealth() call: its position

breaker == <<state, failureCount, successCount, totalRequests, nextAttempt>>
service == <<limiter, svc, observed, requests, thrown, batch, analysis, health>>
vars == <<state, failureCount, successCount, totalRequests, nextAttempt,
          now, calls, emitted, last, hist, admissions, limiter, svc, observed,
          requests, thrown, batch, analysis, health>>

CircuitBreakerState == {"CLOSED", "OPEN", "HALF_OPEN"}

\* ------------------------------------------------------------ pure helpers
\* errorRate >= expectedErrorRate with errorRate = failureCount / totalRequests as
\* JavaScript computes it: n/0 is Infinity for n > 0 and NaN (never >=) for 0/0.
ErrorRateReached(fc, tr) ==
    IF tr = 0 THEN fc > 0
    ELSE fc * ExpectedErrorRateDen >= ExpectedErrorRateNum * tr

\* a trip check that forgets the minimum throughput
shouldTripWithoutThroughput(fc, tr) ==
    /\ fc >= FailureThreshold
    /\ ErrorRateReached(fc, tr)

shouldTrip(fc, tr) ==
    /\ fc >= FailureThreshold
    /\ tr >= MinimumThroughput
    /\ ErrorRateReached(fc, tr)

\* a probe check that never looks at the clock
shouldAttemptResetIgnoringClock(na, t) == na # NoDate

\* a probe check that is late by one instant
shouldAttemptResetStrict(na, t) ==
    /\ na # NoDate
    /\ t > na

shouldAttemptReset(na, t) ==
    /\ na # NoDate
    /\ t >= na

\* a gate that lets a single trial through and turns the others away
RejectsWhileProbing(s, na, t) ==
    \/ s = "OPEN" /\ ~shouldAttemptReset(na, t)
    \/ s = "HALF_OPEN"

\* execute(), the gate: the call is turned away when the breaker is OPEN and no
\* probe is due
Rejects(s, na, t) == s = "OPEN" /\ ~shouldAttemptReset(na, t)

\* a schedule that forgets the recovery timeout
scheduleNextAttemptNow(t) == t

scheduleNextAttempt(t) == t + RecoveryTimeout

\* a reset that forgets totalRequests
resetKeepingTotalRequests ==
    [failureCount |-> 0, successCount |-> 0, totalRequests |-> totalRequests,
     nextAttempt |-> NoDate]

\* reset(): the counters and nextAttempt afterwards
reset == [failureCount |-> 0, successCount |-> 0, totalRequests |-> 0, nextAttempt |-> NoDate]

\* getMetrics(): the snapshot carried by every event
getMetrics(s, fc, sc, tr) ==
    [state |-> s, failureCount |-> fc, successCount |-> sc, totalRequests |-> tr]

\* a 'stateChange' event that names the two states the wrong way round
StateChangeEventSwapped(from, to, fc, sc, tr) ==
    [type |-> "stateChange", from |-> to, to |-> from, metrics |-> getMetrics(to, fc, sc, tr)]

\* setState(newState): the 'stateChange' event; the snapshot is taken after the
\* assignment of this.state and before whatever the caller does next
StateChangeEvent(from, to, fc, sc, tr) ==
    [type |-> "stateChange", from |-> from, to |-> to, metrics |-> getMetrics(to, fc, sc, tr)]

OutcomeEvent(type, s, fc, sc, tr) ==
    [type |-> type, metrics |-> getMetrics(s, fc, sc, tr)]

\* ------------------------------------------------------------------ callers
\* a caller is between calls ("idle") or suspended at `await operation()`
\* ("running"); admittedIn is the breaker's state right after its gate let it in;
\* sibling tells that another call was let in while the breaker was HALF_OPEN and
\* this one, let in while HALF_OPEN as well, was in flight
IdleCall == [pc |-> "idle", admittedIn |-> "none", sibling |-> FALSE]

Probes == {c \in Calls : calls[c].pc = "running" /\ calls[c].admittedIn = "HALF_OPEN"}

InFlight == {c \in Calls : calls[c].pc = "running"}

\* what the handler that ran last did: the caller, what the caller got back
\* (outcome) and whether the handler invoked the wrapped operation
Did(op, c, outcome, invoked) ==
    [op |-> op, call |-> c, outcome |-> outcome, invoked |-> invoked]

\* history bookkeeping: a reset while calls are in flight ends the window in which
\* counters and calls can be compared one to one
HistOf(f, s, t) ==
    [admitted |-> t, succeeded |-> s, failed |-> f, overlap |-> FALSE, tainted |-> FALSE]
HistAfterReset(inflight) ==
    IF inflight = {} THEN HistOf(0, 0, 0) ELSE [HistOf(0, 0, 0) EXCEPT !.tainted = TRUE]
HistBump(h, field) ==
    IF h.tainted THEN h ELSE [h EXCEPT ![field] = @ + 1]

\* no batchAnalyze() call has been made
NoBatch ==
    [pc |-> "idle", requests |-> <<>>, i |-> 0, settled |-> <<>>, results |-> <<>>,
     fulfilled |-> {}, failed |-> 0, reasons |-> {}, attempts |-> <<>>]

\* no model answer is being looked at
NoAnalysis == [pc |-> "idle"]

\* the counters a breaker can show with no call in flight: new; after 4 failed and
\* 4 successful calls, two calls short of minimumThroughput; after 1000 successful
\* calls, at the monitoring tick's high-water mark
StartCounters ==
    { [f |-> 0, s |-> 0, t |-> 0],
      [f |-> FailureThreshold - 1, s |-> MinimumThroughput - FailureThreshold - 1,
       t |-> MinimumThroughput - 2],
      [f |-> 0, s |-> HighWaterMark, t |-> HighWaterMark] }

InitWith(k, tok) ==
    /\ state = "CLOSED"
    /\ failureCount = k.f
    /\ successCount = k.s
    /\ totalRequests = k.t
    /\ nextAttempt = NoDate
    /\ now = 0
    /\ calls = [c \in Calls |-> IdleCall]
    /\ emitted = <<>>
    /\ last = Did("new", 0, "none", FALSE)
    /\ hist = HistOf(k.f, k.s, k.t)
    /\ admissions = 0
    /\ limiter = [tokens |-> tok, windowStart |-> 0]
    /\ svc = [c \in Calls |-> "idle"]
    /\ observed = "none"
    /\ requests = 0
    /\ thrown = "none"
    /\ batch = NoBatch
    /\ analysis = NoAnalysis
    /\ health = "idle"

\* `new CircuitBreaker(options)`, observed from one of the start counters
Init == \E k \in StartCounters : InitWith(k, TokensPerInterval)

\* ------------------------------------------------------------------ execute
\* execute(), the gate: OPEN and not yet due -> throw without touching anything
ExecuteReject(c) ==
    /\ calls[c].pc = "idle"
    /\ Rejects(state, nextAttempt, now)
    /\ emitted' = <<>>
    /\ last' = Did("execute", c, "circuitOpen", FALSE)
    /\ UNCHANGED <<breaker, now, calls, hist, admissions>>

\* an admission that does not count the probe call
TotalAfterAdmitSkippingProbe(s, tr) == IF s = "OPEN" THEN tr ELSE tr + 1

\* totalRequests after the gate has let a call through in state s
TotalAfterAdmit(s, tr) == tr + 1

\* execute(), the gate passed: OPEN and due -> HALF_OPEN; totalRequests++; the
\* operation is invoked and the call suspends at the await
ExecuteAdmit(c) ==
    /\ calls[c].pc = "idle"
    /\ ~Rejects(state, nextAttempt, now)
    /\ LET probe == state = "OPEN"
           s1 == IF probe THEN "HALF_OPEN" ELSE state
       IN /\ state' = s1
          /\ totalRequests' = TotalAfterAdmit(state, totalRequests)
          /\ emitted' = IF probe
                        THEN <<StateChangeEvent("OPEN", "HALF_OPEN", failureCount,
                                                successCount, totalRequests)>>
                        ELSE <<>>
          /\ calls' = [d \in Calls |->
                          IF d = c
                          THEN [pc |-> "running", admittedIn |-> s1,
                                sibling |-> state = "HALF_OPEN" /\ Probes # {}]
                          ELSE IF state = "HALF_OPEN" /\ d \in Probes
                          THEN [calls[d] EXCEPT !.sibling = TRUE]
                          ELSE calls[d]]
    /\ last' = Did("execute", c, "pending", TRUE)
    /\ hist' = [HistBump(hist, "admitted") EXCEPT
                    !.overlap = @ \/ (~hist.tainted /\ InFlight # {})]
    /\ admissions' = admissions + 1
    /\ UNCHANGED <<failureCount, successCount, nextAttempt, now>>

\* a success that closes the breaker whenever it is not CLOSED
StateAfterSuccessClosingOpen(s) == "CLOSED"

\* the breaker's state after onSuccess() ran in state s
StateAfterSuccess(s) == IF s = "HALF_OPEN" THEN "CLOSED" ELSE s

\* the operation resolved: onSuccess(), then the value is returned
OnSuccess(c) ==
    /\ calls[c].pc = "running"
    /\ LET sc1 == successCount + 1
           s1 == StateAfterSuccess(state)
           changed == s1 # state
           r == reset
           fc2 == IF changed THEN r.failureCount ELSE failureCount
           sc2 == IF changed THEN r.successCount ELSE sc1
           tr2 == IF changed THEN r.totalRequests ELSE totalRequests
       IN /\ state' = s1
          /\ failureCount' = fc2
          /\ successCount' = sc2
          /\ totalRequests' = tr2
          /\ nextAttempt' = IF changed THEN r.nextAttempt ELSE nextAttempt
          /\ emitted' = (IF changed
                         THEN <<StateChangeEvent(state, s1, failureCount, sc1, totalRequests)>>
                         ELSE <<>>)
                        \o <<OutcomeEvent("success", s1, fc2, sc2, tr2)>>
          /\ hist' = IF changed THEN HistAfterReset(InFlight \ {c})
                     ELSE HistBump(hist, "succeeded")
    /\ calls' = [calls EXCEPT ![c] = IdleCall]
    /\ last' = Did("onSuccess", c, "value", FALSE)
    /\ UNCHANGED <<now, admissions>>

\* a failure handler that spells the state it opens to in lower case
StateAfterFailureLowerCase(s, fc, tr) ==
    IF s = "HALF_OPEN" THEN "open"
    ELSE IF s = "CLOSED" /\ shouldTrip(fc, tr) THEN "open"
    ELSE s

\* a failure handler that applies the trip check to HALF_OPEN as well
StateAfterFailureAlwaysChecking(s, fc, tr) ==
    IF s \in {"HALF_OPEN", "CLOSED"} /\ shouldTrip(fc, tr) THEN "OPEN" ELSE s

\* the breaker's state after onFailure() ran in state s with the counters fc, tr
\* (fc already counts the failure)
StateAfterFailure(s, fc, tr) ==
    IF s = "HALF_OPEN" THEN "OPEN"
    ELSE IF s = "CLOSED" /\ shouldTrip(fc, tr) THEN "OPEN"
    ELSE s

\* a catch block that throws an error of the breaker's own
ExecuteRethrownGeneric(error) == "circuitError"

\* execute(), `catch (error) { this.onFailure(); throw error; }`: what the caller
\* receives
ExecuteRethrown(error) == error

\* the operation rejected: onFailure(), then the error is re-thrown
OnFailure(c, err) ==
    /\ calls[c].pc = "running"
    /\ LET fc1 == failureCount + 1
           s1 == StateAfterFailure(state, fc1, totalRequests)
           changed == s1 # state
       IN /\ state' = s1
          /\ failureCount' = fc1
          /\ nextAttempt' = IF changed THEN scheduleNextAttempt(now) ELSE nextAttempt
          /\ emitted' = (IF changed
                         THEN <<StateChangeEvent(state, s1, fc1, successCount, totalRequests)>>
                         ELSE <<>>)
                        \o <<OutcomeEvent("failure", s1, fc1, successCount, totalRequests)>>
    /\ calls' = [calls EXCEPT ![c] = IdleCall]
    /\ last' = Did("onFailure", c, ExecuteRethrown(err), FALSE)
    /\ hist' = HistBump(hist, "failed")
    /\ UNCHANGED <<successCount, totalRequests, now, admissions>>

\* execute() with an operation that throws before it returns a promise: the gate,
\* totalRequests++, the throw inside the try block, onFailure() and the re-throw
\* all run in one stretch
ExecuteThrows(c, err) ==
    /\ calls[c].pc = "idle"
    /\ ~Rejects(state, nextAttempt, now)
    /\ LET probe == state = "OPEN"
           s1 == IF probe THEN "HALF_OPEN" ELSE state
           tr1 == TotalAfterAdmit(state, totalRequests)
           fc1 == failureCount + 1
           s2 == StateAfterFailure(s1, fc1, tr1)
       IN /\ state' = s2
          /\ totalRequests' = tr1
          /\ failureCount' = fc1
          /\ nextAttempt' = IF s2 # s1 THEN scheduleNextAttempt(now) ELSE nextAttempt
          /\ emitted' = (IF probe
                         THEN <<StateChangeEvent("OPEN", "HALF_OPEN", failureCount,
                                                 successCount, totalRequests)>>
                         ELSE <<>>)
                        \o (IF s2 # s1
                            THEN <<StateChangeEvent(s1, s2, fc1, successCount, tr1)>>
                            ELSE <<>>)
                        \o <<OutcomeEvent("failure", s2, fc1, successCount, tr1)>>
    /\ last' = Did("executeSync", c, ExecuteRethrown(err), TRUE)
    /\ hist' = [HistBump(HistBump(hist, "admitted"), "failed") EXCEPT
                    !.overlap = @ \/ (~hist.tainted /\ InFlight # {})]
    /\ admissions' = admissions + 1
    /\ UNCHANGED <<successCount, now, calls>>

\* ---------------------------------------------------------------- overrides
ForceOpen ==
    /\ state' = "OPEN"
    /\ nextAttempt' = scheduleNextAttempt(now)
    /\ emitted' = <<StateChangeEvent(state, "OPEN", failureCount, successCount, totalRequests)>>
    /\ last' = Did("forceOpen", 0, "none", FALSE)
    /\ UNCHANGED <<failureCount, successCount, totalRequests, now, calls, hist, admissions>>

ForceClose ==
    /\ state' = "CLOSED"
    /\ failureCount' = reset.failureCount
    /\ successCount' = reset.successCount
    /\ totalRequests' = reset.totalRequests
    /\ nextAttempt' = reset.nextAttempt
    /\ emitted' = <<StateChangeEvent(state, "CLOSED", failureCount, successCount, totalRequests)>>
    /\ last' = Did("forceClose", 0, "none", FALSE)
    /\ hist' = HistAfterReset(InFlight)
    /\ UNCHANGED <<now, calls, admissions>>

\* --------------------------------------------------------------- monitoring
\* a monitoring reset at the mark already
HighWaterInclusive(s, tr) == s = "CLOSED" /\ tr >= HighWaterMark

\* a monitoring reset that does not look at the state
HighWaterAnyState(s, tr) == tr > HighWaterMark

\* `this.state === CircuitBreakerState.CLOSED && this.totalRequests > 1000`
HighWater(s, tr) == s = "CLOSED" /\ tr > HighWaterMark

\* the setInterval callback of startMonitoring()
MonitoringTick ==
    /\ LET high == HighWater(state, totalRequests)
       IN /\ failureCount' = IF high THEN reset.failureCount ELSE failureCount
          /\ successCount' = IF high THEN reset.successCount ELSE successCount
          /\ totalRequests' = IF high THEN reset.totalRequests ELSE totalRequests
          /\ nextAttempt' = IF high THEN reset.nextAttempt ELSE nextAttempt
          /\ hist' = IF high THEN HistAfterReset(InFlight) ELSE hist
    /\ emitted' = <<OutcomeEvent("metrics", state, failureCount, successCount, totalRequests)>>
    /\ last' = Did("monitor", 0, "none", FALSE)
    /\ UNCHANGED <<state, now, calls, admissions>>

\* -------------------------------------------------------------------- clock
Tick ==
    /\ now + TimeStep <= MaxTime
    /\ now' = now + TimeStep
    /\ emitted' = <<>>
    /\ last' = Did("tick", 0, "none", FALSE)
    /\ UNCHANGED <<breaker, calls, hist, admissions>>

\* ------------------------------------------------------------- LLMService
\* RateLimiter.consume() at instant t: a token bucket of TokensPerInterval tokens
\* refilled once Interval has passed; an empty bucket rejects at once
\* a bucket that is never replenished
RefilledNever(l, t) == l

Refilled(l, t) ==
    IF t - l.windowStart >= Interval
    THEN [tokens |-> TokensPerInterval, windowStart |-> t]
    ELSE l

ConsumeOk(l, t) == Refilled(l, t).tokens > 0

AfterConsumeCall(l, t) ==
    IF ConsumeOk(l, t) THEN [Refilled(l, t) EXCEPT !.tokens = @ - 1] ELSE Refilled(l, t)

\* analyzeCode(), up to `await this.rateLimiter.consume()`
AnalyzeCode(c) ==
    /\ svc[c] = "idle"
    /\ calls[c].pc = "idle"
    /\ svc' = [svc EXCEPT ![c] = IF ConsumeOk(limiter, now) THEN "consumeOk"
                                 ELSE "consumeRejected"]
    /\ limiter' = AfterConsumeCall(limiter, now)
    /\ observed' = "none"
    /\ thrown' = "none"
    /\ requests' = requests + 1
    /\ emitted' = <<>>
    /\ last' = Did("consume", c, "pending", FALSE)
    /\ UNCHANGED <<breaker, now, calls, hist, admissions, batch, analysis, health>>

\* an analyzeCode() that goes on to the breaker whatever consume() answered
ReachesBreakerUnawaited(answer) == TRUE

\* analyzeCode() reaches circuitBreaker.execute() only past the awaited consume()
ReachesBreaker(answer) == answer = "consumeOk"

\* a catch block that hands its caller an error of its own
RethrownWrapped(error) == "analysisFailed"

\* analyzeCode(), `catch (error) { ...; throw error; }`: what the caller receives
Rethrown(error) == error

\* a service that records a success before it knows the outcome
RecordedEagerly(outcome) == IF outcome = "value" THEN "success" ELSE "both"

\* the one metrics observation of an analyzeCode() call: recordSuccess() after the
\* awaited execute() returned, recordError() in the catch block
Recorded(outcome) == IF outcome = "value" THEN "success" ELSE "error"

\* analyzeCode(), consume() rejected: the catch block records the error and
\* re-throws it
AnalyzeLimited(c) ==
    /\ svc[c] \in {"consumeOk", "consumeRejected"}
    /\ ~ReachesBreaker(svc[c])
    /\ svc' = [svc EXCEPT ![c] = "idle"]
    /\ observed' = Recorded("rateLimit")
    /\ thrown' = Rethrown("rateLimit")
    /\ emitted' = <<>>
    /\ last' = Did("analyzeCode", c, "rateLimit", FALSE)
    /\ UNCHANGED <<breaker, now, calls, hist, admissions, limiter, requests, batch, analysis, health>>

\* analyzeCode(), consume() resolved: circuitBreaker.execute() is called; an OPEN
\* breaker that is not due rejects, and the catch block records the error
AnalyzeRejected(c) ==
    /\ svc[c] \in {"consumeOk", "consumeRejected"}
    /\ ReachesBreaker(svc[c])
    /\ ExecuteReject(c)
    /\ svc' = [svc EXCEPT ![c] = "idle"]
    /\ observed' = Recorded(last'.outcome)
    /\ thrown' = Rethrown(last'.outcome)
    /\ UNCHANGED <<limiter, requests, batch, analysis, health>>

\* analyzeCode(), consume() resolved: circuitBreaker.execute() lets the call in
\* and performCodeAnalysis() sends the request to the model
AnalyzeAdmitted(c) ==
    /\ svc[c] \in {"consumeOk", "consumeRejected"}
    /\ ReachesBreaker(svc[c])
    /\ ExecuteAdmit(c)
    /\ svc' = [svc EXCEPT ![c] = "execute"]
    /\ observed' = "none"
    /\ thrown' = "none"
    /\ UNCHANGED <<limiter, requests, batch, analysis, health>>

\* what performCodeAnalysis() makes of the model's answer: a thrown request, no
\* content, content that JSON.parse refuses, a JSON object
Responses == {"upstream", "empty", "invalid", "json"}

\* the model answered with a JSON object: the breaker's onSuccess(), then
\* recordSuccess()
AnalyzeSucceeds(c) ==
    /\ svc[c] = "execute"
    /\ OnSuccess(c)
    /\ svc' = [svc EXCEPT ![c] = "idle"]
    /\ observed' = Recorded(last'.outcome)
    /\ thrown' = last'.outcome
    /\ UNCHANGED <<limiter, requests, batch, analysis, health>>

\* a service that looks at the answer only after execute() has returned it
ThrownInOperationUpstreamOnly(r) == r = "upstream"

\* the operation handed to execute() is performCodeAnalysis() as a whole: the
\* request, the check for content and parseAnalysisResponse() all throw inside it
ThrownInOperation(r) == r # "json"

\* the request failed or its answer is unusable: the breaker's onFailure(), then
\* recordError()
AnalyzeFails(c, r) ==
    /\ svc[c] = "execute"
    /\ r # "json"
    /\ IF ThrownInOperation(r)
       THEN /\ OnFailure(c, r)
            /\ observed' = Recorded(last'.outcome)
            /\ thrown' = Rethrown(last'.outcome)
       ELSE /\ OnSuccess(c)
            /\ observed' = Recorded(r)
            /\ thrown' = Rethrown(r)
    /\ svc' = [svc EXCEPT ![c] = "idle"]
    /\ UNCHANGED <<limiter, requests, batch, analysis, health>>

\* ------------------------------------------------- calculateConfidence
\* JavaScript numbers are IEEE-754 doubles.  A positive normal double is kept as
\* [e, m]: m is its 53-bit significand, most significant bit first (m[1] = 1), and
\* e the exponent of m[1], so the value is the sum of m[k] * 2^(e - k + 1).
Zeros(n) == [k \in 1..n |-> 0]

Nibble(h) == <<(h \div 8) % 2, (h \div 4) % 2, (h \div 2) % 2, h % 2>>

RECURSIVE HexBits(_)
HexBits(hs) == IF hs = <<>> THEN <<>> ELSE Nibble(Head(hs)) \o HexBits(Tail(hs))

\* 0.5 = 0x1.0000000000000p-1, 1.0 = 0x1.0000000000000p+0
Half == [e |-> -1, m |-> <<1>> \o Zeros(52)]
One == [e |-> 0, m |-> <<1>> \o Zeros(52)]
\* the literals 0.2 = 0x1.999999999999ap-3 and 0.1 = 0x1.999999999999ap-4
Fifth == [e |-> -3, m |-> <<1>> \o HexBits(<<9, 9, 9, 9, 9, 9, 9, 9, 9, 9, 9, 9, 10>>)]
Tenth == [e |-> -4, m |-> Fifth.m]

\* the carry into position k of a + b: some lower position generates one and every
\* position in between passes it on
CarryInto(a, b, k) ==
    \E j \in (k + 1)..Len(a) :
        /\ a[j] + b[j] = 2
        /\ \A i \in (k + 1)..(j - 1) : a[i] + b[i] = 1

\* binary addition of two bit strings of equal length; the result is one bit longer
AddBits(a, b) ==
    [k \in 1..(Len(a) + 1) |->
        LET c == IF CarryInto(a, b, k - 1) THEN 1 ELSE 0
        IN IF k = 1 THEN c ELSE (a[k - 1] + b[k - 1] + c) % 2]

\* round to nearest, ties to even: a normalised bit string (bits[1] = 1) whose
\* first bit has exponent e, cut to 53 bits
RoundToDouble(e, bits) ==
    LET m == SubSeq(bits, 1, 53)
        rest == SubSeq(bits, 54, Len(bits))
        up == /\ rest # <<>>
              /\ rest[1] = 1
              /\ \/ \E k \in 2..Len(rest) : rest[k] = 1
                 \/ m[53] = 1
        plus == AddBits(m, Zeros(52) \o <<1>>)
    IN IF ~up THEN [e |-> e, m |-> m]
       ELSE IF plus[1] = 1 THEN [e |-> e + 1, m |-> SubSeq(plus, 1, 53)]
       ELSE [e |-> e, m |-> Tail(plus)]

\* x + y on doubles: the exact sum, rounded
FAdd(x, y) ==
    LET hi == IF x.e >= y.e THEN x ELSE y
        lo == IF x.e >= y.e THEN y ELSE x
        sum == AddBits(hi.m \o Zeros(hi.e - lo.e), Zeros(hi.e - lo.e) \o lo.m)
    IN IF sum[1] = 1 THEN RoundToDouble(hi.e + 1, sum)
       ELSE RoundToDouble(hi.e, Tail(sum))

\* a < b on bit strings of equal length
BitsLess(a, b) ==
    \E k \in 1..Len(a) : a[k] < b[k] /\ \A j \in 1..(k - 1) : a[j] = b[j]

FLess(x, y) == x.e < y.e \/ (x.e = y.e /\ BitsLess(x.m, y.m))

\* Math.min(x, y)
FMin(x, y) == IF FLess(y, x) THEN y ELSE x

\* a field of the parsed answer: undefined, or an array / an object with so many
\* elements / keys
Absent == [t |-> "undefined", items |-> <<>>]
Items(n) == [t |-> "defined", items |-> [k \in 1..n |-> k]]

\* `analysis.issues && analysis.issues.length > 0`, and likewise for the keys
NonEmpty(field) == field.t = "defined" /\ Len(field.items) > 0

\* calculateConfidence(analysis)
calculateConfidence(analysis_) ==
    LET c0 == Half
        c1 == IF NonEmpty(analysis_.issues) THEN FAdd(c0, Fifth) ELSE c0
        c2 == IF NonEmpty(analysis_.suggestions) THEN FAdd(c1, Fifth) ELSE c1
        c3 == IF NonEmpty(analysis_.metrics) THEN FAdd(c2, Tenth) ELSE c2
    IN FMin(c3, One)

\* ------------------------------------------------- performCodeAnalysis
\* the request fields that the result echoes
AnalysisRequests ==
    [fileName : 1..2, language : {"typescript", "python"},
     analysisType : {"security", "quality"}]

\* the JSON values a text can denote: null, a value that is no object (a number, a
\* string, a boolean) or an array, an object with some of the expected members
JsonObjects ==
    [kind : {"object"},
     issues : {Absent} \cup {Items(n) : n \in 0..MaxItems},
     suggestions : {Absent} \cup {Items(n) : n \in 0..MaxItems},
     metrics : {Absent} \cup {Items(n) : n \in 0..1}]

JsonValues == {[kind |-> "null"], [kind |-> "scalar"], [kind |-> "array"]} \cup JsonObjects

\* completion.choices[0]?.message?.content: undefined, null or a string; a string
\* is empty, not JSON, or the text of a JSON value
Contents ==
    {[t |-> "undefined"], [t |-> "null"], [t |-> "string", text |-> "empty"],
     [t |-> "string", text |-> "notJson"]}
    \cup {[t |-> "string", text |-> "json", value |-> v] : v \in JsonValues}

\* `!response`
Falsy(content) == content.t # "string" \/ content.text = "empty"

\* JSON.parse(response): a SyntaxError unless the text is the text of a JSON value
JsonParse(content) ==
    IF content.text = "json" THEN [ok |-> TRUE, value |-> content.value]
    ELSE [ok |-> FALSE, value |-> [kind |-> "none"]]

\* parsed.issues, parsed.suggestions, parsed.metrics: a TypeError on null,
\* undefined on a value that is no object and on an array
Member(parsed, name) == IF parsed.kind = "object" THEN parsed[name] ELSE Absent

\* `parsed.issues || []`: arrays and objects are truthy, empty ones too
OrEmpty(field) == IF field.t = "defined" THEN field.items ELSE <<>>

\* parseAnalysisResponse(response, request)
parseAnalysisResponse(content, request) ==
    LET parse == JsonParse(content)
    IN IF ~parse.ok \/ parse.value.kind = "null"
       THEN [status |-> "error", error |-> "invalid"]
       ELSE LET parsed == [issues |-> Member(parse.value, "issues"),
                           suggestions |-> Member(parse.value, "suggestions"),
                           metrics |-> Member(parse.value, "metrics")]
            IN [status |-> "value",
                fileName |-> request.fileName,
                language |-> request.language,
                analysisType |-> request.analysisType,
                issues |-> OrEmpty(parsed.issues),
                suggestions |-> OrEmpty(parsed.suggestions),
                metrics |-> OrEmpty(parsed.metrics),
                confidence |-> calculateConfidence(parsed)]

\* performCodeAnalysis(request) once the model has answered with content
performCodeAnalysisOf(content, request) ==
    IF Falsy(content) THEN [status |-> "error", error |-> "empty"]
    ELSE parseAnalysisResponse(content, request)

\* performCodeAnalysis(request), from the model's answer to its result or error
PerformCodeAnalysis(request, content) ==
    /\ analysis' = [pc |-> "done", request |-> request, content |-> content,
                    outcome |-> performCodeAnalysisOf(content, request)]
    /\ UNCHANGED <<breaker, now, calls, emitted, last, hist, admissions,
                   limiter, svc, observed, requests, thrown, batch, health>>

\* ---------------------------------------------------------- getModelHealth
\* getModelHealth(), up to the await: the probe request is sent with
\* this.openai.chat.completions.create
GetModelHealth ==
    /\ health = "idle"
    /\ health' = "probing"
    /\ emitted' = <<>>
    /\ last' = Did("getModelHealth", 0, "pending", TRUE)
    /\ UNCHANGED <<breaker, now, calls, hist, admissions,
                   limiter, svc, observed, requests, thrown, batch, analysis>>

\* the probe request was answered (ok) or failed: the status is returned, no error
\* is thrown
HealthAnswered(ok) ==
    /\ health = "probing"
    /\ health' = "idle"
    /\ emitted' = <<>>
    /\ last' = Did("healthAnswered", 0, IF ok THEN "healthy" ELSE "unhealthy", FALSE)
    /\ UNCHANGED <<breaker, now, calls, hist, admissions,
                   limiter, svc, observed, requests, thrown, batch, analysis>>

\* ------------------------------------------------------------ batchAnalyze
\* how one analyzeCode() promise settles: with its result, or rejected with the
\* error of the rate limiter, of the breaker's gate, of the remote call or of the
\* response checks
Settlements == {"value", "rateLimit", "circuitOpen"} \cup (Responses \ {"json"})

\* a request is known by its fileName, and so is the result that echoes it
BatchRequests(n) == [k \in 1..n |-> k]

\* a slice that runs to the end of the list
SliceToEnd(reqs, i) == SubSeq(reqs, i + 1, Len(reqs))

\* requests.slice(i, i + batchSize)
Slice(reqs, i) ==
    SubSeq(reqs, i + 1, IF i + BatchSize < Len(reqs) THEN i + BatchSize ELSE Len(reqs))

\* batch.map(request => this.analyzeCode(request)): one pending promise per request
Pending(chunk) == [k \in 1..Len(chunk) |-> "pending"]

SettledResult(outcome, request) ==
    IF outcome = "value"
    THEN [status |-> "fulfilled", value |-> request, reason |-> "none"]
    ELSE [status |-> "rejected", value |-> 0, reason |-> outcome]

FirstRejected(chunk, settled) ==
    LET bad == {k \in 1..Len(settled) : settled[k] # "value"}
    IN IF bad = {} THEN "none"
       ELSE settled[CHOOSE k \in bad : \A j \in bad : k <= j]

\* Promise.all in the place of Promise.allSettled: rejects with the first rejection
PromiseAll(chunk, settled) ==
    IF FirstRejected(chunk, settled) = "none"
    THEN [status |-> "fulfilled",
          value |-> [k \in 1..Len(chunk) |-> SettledResult(settled[k], chunk[k])],
          reason |-> "none"]
    ELSE [status |-> "rejected", value |-> <<>>, reason |-> FirstRejected(chunk, settled)]

\* await Promise.allSettled(batchPromises): always fulfilled, one entry per
\* promise in the order of the array
AllSettled(chunk, settled) ==
    [status |-> "fulfilled",
     value |-> [k \in 1..Len(chunk) |-> SettledResult(settled[k], chunk[k])],
     reason |-> "none"]

\* batchResults.forEach(...): the values of the fulfilled entries, in index order
RECURSIVE Pushed(_)
Pushed(batchResults) ==
    IF batchResults = <<>> THEN <<>>
    ELSE (IF Head(batchResults).status = "fulfilled"
          THEN <<Head(batchResults).value>> ELSE <<>>) \o Pushed(Tail(batchResults))

\* a loop body without the try block that awaits the promises themselves
ChunkOutcomeAwaitingEach(chunk, settled) ==
    [thrown |-> FirstRejected(chunk, settled),
     pushed |-> Pushed(AllSettled(chunk, settled).value)]

\* the try/catch of the loop body: what it appends to results and what it lets
\* escape; the catch block logs and goes on
ChunkOutcome(chunk, settled) ==
    LET awaited == AllSettled(chunk, settled)
    IN IF awaited.status = "fulfilled"
       THEN [thrown |-> "none", pushed |-> Pushed(awaited.value)]
       ELSE [thrown |-> "none", pushed |-> <<>>]

\* batchAnalyze(requests), up to the first await: an empty list returns at once,
\* otherwise the first chunk's analyzeCode() calls are started
BatchAnalyze(n) ==
    /\ batch.pc = "idle"
    /\ LET rs == BatchRequests(n)
       IN batch' = [NoBatch EXCEPT
                       !.requests = rs,
                       !.pc = IF 0 < Len(rs) THEN "chunk" ELSE "done",
                       !.settled = Pending(Slice(rs, 0)),
                       !.attempts = Slice(rs, 0)]
    /\ UNCHANGED <<breaker, now, calls, emitted, last, hist, admissions,
                   limiter, svc, observed, requests, thrown, analysis, health>>

\* one analyzeCode() promise of the chunk settles
Settle(k, outcome) ==
    /\ batch.pc = "chunk"
    /\ k \in 1..Len(batch.settled)
    /\ batch.settled[k] = "pending"
    /\ batch' = [batch EXCEPT
                    !.settled[k] = outcome,
                    !.fulfilled = IF outcome = "value"
                                  THEN @ \cup {Slice(batch.requests, batch.i)[k]} ELSE @,
                    !.failed = IF outcome = "value" THEN @ ELSE @ + 1,
                    !.reasons = IF outcome = "value" THEN @ ELSE @ \cup {outcome}]
    /\ UNCHANGED <<breaker, now, calls, emitted, last, hist, admissions,
                   limiter, svc, observed, requests, thrown, analysis, health>>

\* every promise of the chunk has settled: the rest of the loop body, then either
\* the delay before the next chunk or the end of the loop and `return results`
ChunkSettled ==
    /\ batch.pc = "chunk"
    /\ \A k \in 1..Len(batch.settled) : batch.settled[k] # "pending"
    /\ LET out == ChunkOutcome(Slice(batch.requests, batch.i), batch.settled)
       IN batch' = IF out.thrown # "none"
                   THEN [batch EXCEPT !.pc = "threw", !.settled = <<>>]
                   ELSE IF batch.i + BatchSize < Len(batch.requests)
                   THEN [batch EXCEPT !.pc = "delay", !.settled = <<>>,
                                      !.results = @ \o out.pushed]
                   ELSE [batch EXCEPT !.pc = "done", !.settled = <<>>,
                                      !.results = @ \o out.pushed,
                                      !.i = @ + BatchSize]
    /\ UNCHANGED <<breaker, now, calls, emitted, last, hist, admissions,
                   limiter, svc, observed, requests, thrown, analysis, health>>

\* a delay whose promise is never resolved
DelayNeverResolves == FALSE

\* `await new Promise(resolve => setTimeout(resolve, 1000))`: the timer callback
\* resolves the promise
DelayResolves == TRUE

\* the setTimeout between two chunks fired: i += batchSize and the next chunk's
\* analyzeCode() calls are started
DelayElapsed ==
    /\ batch.pc = "delay"
    /\ DelayResolves
    /\ batch' = [batch EXCEPT
                    !.pc = "chunk",
                    !.i = @ + BatchSize,
                    !.settled = Pending(Slice(batch.requests, batch.i + BatchSize)),
                    !.attempts = @ \o Slice(batch.requests, batch.i + BatchSize)]
    /\ UNCHANGED <<breaker, now, calls, emitted, last, hist, admissions,
                   limiter, svc, observed, requests, thrown, analysis, health>>

\* ----------------------------------------------------------- specifications
\* the breaker under concurrent callers, overrides, monitoring ticks and time
Next ==
    \/ \E c \in Calls : ExecuteReject(c) /\ UNCHANGED service
    \/ \E c \in Calls : admissions < MaxAdmissions /\ ExecuteAdmit(c) /\ UNCHANGED service
    \/ \E c \in Calls : OnSuccess(c) /\ UNCHANGED service
    \/ \E c \in Calls : OnFailure(c, "opError") /\ UNCHANGED service
    \/ ForceOpen /\ UNCHANGED service
    \/ ForceClose /\ UNCHANGED service
    \/ MonitoringTick /\ UNCHANGED service
    \/ Tick /\ UNCHANGED service

Spec == Init /\ [][Next]_vars

\* the breaker driven by execute() calls and the clock alone: no override, no
\* monitoring tick
CallsNext ==
    \/ \E c \in Calls : ExecuteReject(c) /\ UNCHANGED service
    \/ \E c \in Calls : admissions < MaxAdmissions /\ ExecuteAdmit(c) /\ UNCHANGED service
    \/ \E c \in Calls : OnSuccess(c) /\ UNCHANGED service
    \/ \E c \in Calls : OnFailure(c, "opError") /\ UNCHANGED service
    \/ Tick /\ UNCHANGED service

CallsSpec == Init /\ [][CallsNext]_vars

\* a new breaker and one caller making SeqCalls execute() calls one after another
SeqInit == InitWith([f |-> 0, s |-> 0, t |-> 0], TokensPerInterval)

SeqNext ==
    \/ ExecuteReject(1) /\ UNCHANGED service
    \/ admissions < SeqCalls /\ ExecuteAdmit(1) /\ UNCHANGED service
    \/ OnSuccess(1) /\ UNCHANGED service
    \/ OnFailure(1, "opError") /\ UNCHANGED service

SeqSpec == SeqInit /\ [][SeqNext]_vars

\* the LLMService: concurrent analyzeCode() calls, forceOpen() and time; the rate-limit window has StartTokens tokens left and the breaker's
\* counters are well below the monitoring tick's high-water mark
SvcInit == \E k \in StartCounters : k.t < HighWaterMark /\ InitWith(k, StartTokens)

SvcNext ==
    \/ \E c \in Calls : requests < MaxRequests /\ AnalyzeCode(c)
    \/ \E c \in Calls : AnalyzeLimited(c)
    \/ \E c \in Calls : AnalyzeRejected(c)
    \/ \E c \in Calls : admissions < MaxAdmissions /\ AnalyzeAdmitted(c)
    \/ \E c \in Calls : AnalyzeSucceeds(c)
    \/ \E c \in Calls, r \in Responses : AnalyzeFails(c, r)
    \/ ForceOpen /\ UNCHANGED service
    \/ Tick /\ UNCHANGED service

SvcSpec == SvcInit /\ [][SvcNext]_vars

\* the breaker under execute() calls whose operations resolve, reject (with an
\* error of their own or a timeout) or throw before they return a promise
OpErrors == {"opError", "timeout"}

SyncNext ==
    \/ \E c \in Calls : ExecuteReject(c) /\ UNCHANGED service
    \/ \E c \in Calls : admissions < MaxAdmissions /\ ExecuteAdmit(c) /\ UNCHANGED service
    \/ \E c \in Calls, e \in OpErrors :
          admissions < MaxAdmissions /\ ExecuteThrows(c, e) /\ UNCHANGED service
    \/ \E c \in Calls : OnSuccess(c) /\ UNCHANGED service
    \/ \E c \in Calls, e \in OpErrors : OnFailure(c, e) /\ UNCHANGED service
    \/ Tick /\ UNCHANGED service

SyncSpec == Init /\ [][SyncNext]_vars

\* the breaker under execute() calls, forceOpen() and time, next to health probes
HealthNext ==
    \/ \E c \in Calls : ExecuteReject(c) /\ UNCHANGED service
    \/ \E c \in Calls : admissions < MaxAdmissions /\ ExecuteAdmit(c) /\ UNCHANGED service
    \/ \E c \in Calls : OnSuccess(c) /\ UNCHANGED service
    \/ \E c \in Calls : OnFailure(c, "opError") /\ UNCHANGED service
    \/ ForceOpen /\ UNCHANGED service
    \/ Tick /\ UNCHANGED service
    \/ GetModelHealth
    \/ \E ok \in BOOLEAN : HealthAnswered(ok)

HealthSpec == Init /\ [][HealthNext]_vars

\* performCodeAnalysis() on every request and every answer of the model
AnalysisInit == InitWith([f |-> 0, s |-> 0, t |-> 0], TokensPerInterval)

AnalysisNext ==
    \E request \in AnalysisRequests, content \in Contents :
        PerformCodeAnalysis(request, content)

AnalysisSpec == AnalysisInit /\ [][AnalysisNext]_vars

\* one batchAnalyze() call on a list of up to MaxBatch requests, every analyzeCode()
\* promise settling in any order and in any of the ways it can
BatchInit == InitWith([f |-> 0, s |-> 0, t |-> 0], TokensPerInterval)

BatchNext ==
    \/ \E n \in 0..MaxBatch : BatchAnalyze(n)
    \/ \E k \in 1..BatchSize, o \in Settlements : Settle(k, o)
    \/ ChunkSettled
    \/ DelayElapsed

BatchSpec == BatchInit /\ [][BatchNext]_vars

\* batchAnalyze on an event loop that keeps running: every analyzeCode() promise
\* of a chunk settles, the continuation after `await Promise.allSettled` runs,
\* and the setTimeout callback of the delay fires
BatchFairSpec ==
    /\ BatchSpec
    /\ \A k \in 1..BatchSize : WF_vars(\E o \in Settlements : Settle(k, o))
    /\ WF_vars(ChunkSettled)
    /\ WF_vars(DelayElapsed)

\* ------------------------------------------------------------------- claims
ByExecute == {"execute", "onSuccess", "onFailure"}
Overrides == {"forceOpen", "forceClose"}

\* C1: through execute(), a CLOSED breaker moves to OPEN exactly when a failed call
\* completes and, counting that failure, failureCount >= failureThreshold,
\* totalRequests >= minimumThroughput and failureCount/totalRequests >=
\* expectedErrorRate all hold; below minimumThroughput it never trips, and a
\* successful completion never trips it.
C1_TripsExactlyOnQualifyingFailure ==
    [][ (state = "CLOSED" /\ last'.op \in ByExecute) =>
          /\ state' = "OPEN" <=>
                /\ last'.op = "onFailure"
                /\ failureCount' >= 5
                /\ totalRequests' >= 10
                /\ 2 * failureCount' >= totalRequests'
          /\ last'.op = "onFailure" => failureCount' = failureCount + 1
          /\ totalRequests' < 10 => state' = "CLOSED"
          /\ last'.op = "onSuccess" => state' = "CLOSED" ]_vars

C1_Witness ==
    /\ last.op = "onFailure"
    /\ state = "OPEN"
    /\ Len(emitted) = 2
    /\ emitted[1].type = "stateChange"
    /\ emitted[1].from = "CLOSED"
    /\ failureCount = 5
    /\ totalRequests = 10

\* C2: while OPEN and before nextAttempt, execute() rejects with the circuit-open
\* error, does not invoke the operation and changes none of state, failureCount,
\* successCount, totalRequests, nextAttempt.
C2_OpenRejectsUntouched ==
    [][ (state = "OPEN" /\ nextAttempt # NoDate /\ now < nextAttempt
           /\ last'.op = "execute") =>
          /\ last'.outcome = "circuitOpen"
          /\ ~last'.invoked
          /\ calls'[last'.call].pc = "idle"
          /\ UNCHANGED <<state, failureCount, successCount, totalRequests, nextAttempt>> ]_vars

C2_Witness ==
    /\ state = "OPEN"
    /\ now > 0
    /\ now < nextAttempt
    /\ last.op = "execute"
    /\ last.outcome = "circuitOpen"
    /\ totalRequests > 0

\* C3: OPEN and at or past nextAttempt (set to the instant of entering OPEN plus
\* recoveryTimeout): the next execute() sets HALF_OPEN before the operation runs,
\* and invokes the operation.
C3_DueProbeGoesHalfOpen ==
    [][ /\ (state = "OPEN" /\ nextAttempt # NoDate /\ now >= nextAttempt
              /\ last'.op = "execute") =>
             /\ state' = "HALF_OPEN"
             /\ last'.invoked
             /\ calls'[last'.call].pc = "running"
             /\ calls'[last'.call].admittedIn = "HALF_OPEN"
             /\ emitted' # <<>>
             /\ emitted'[1].type = "stateChange"
             /\ emitted'[1].to = "HALF_OPEN"
        /\ (state # "OPEN" /\ state' = "OPEN") => nextAttempt' = now' + 60000 ]_vars

C3_Witness ==
    /\ state = "HALF_OPEN"
    /\ last.op = "execute"
    /\ last.invoked
    /\ emitted # <<>>
    /\ now = nextAttempt

\* C4: a call that succeeds while HALF_OPEN leaves the breaker CLOSED with
\* failureCount, successCount and totalRequests 0 and nextAttempt cleared.
C4_HalfOpenSuccessCloses ==
    [][ (state = "HALF_OPEN" /\ last'.op = "onSuccess") =>
          /\ state' = "CLOSED"
          /\ failureCount' = 0
          /\ successCount' = 0
          /\ totalRequests' = 0
          /\ nextAttempt' = NoDate ]_vars

C4_Witness ==
    /\ last.op = "onSuccess"
    /\ state = "CLOSED"
    /\ emitted # <<>>
    /\ emitted[1].type = "stateChange"
    /\ emitted[1].from = "HALF_OPEN"
    /\ emitted[1].metrics.totalRequests > 1

\* C5: a call that fails while HALF_OPEN returns the breaker to OPEN whatever the
\* thresholds and the error rate say, with nextAttempt = the instant of the failure
\* + recoveryTimeout, so execute() is not yet due again.
C5_HalfOpenFailureReopens ==
    [][ (state = "HALF_OPEN" /\ last'.op = "onFailure") =>
          /\ state' = "OPEN"
          /\ nextAttempt' = now + 60000
          /\ ~(now' >= nextAttempt') ]_vars

C5_Witness ==
    /\ last.op = "onFailure"
    /\ state = "OPEN"
    /\ emitted # <<>>
    /\ emitted[1].type = "stateChange"
    /\ emitted[1].from = "HALF_OPEN"
    /\ failureCount < 5
    /\ now > 0
    /\ nextAttempt = now + 60000

Edges ==
    { <<"CLOSED", "OPEN">>, <<"OPEN", "HALF_OPEN">>,
      <<"HALF_OPEN", "CLOSED">>, <<"HALF_OPEN", "OPEN">> }

C7_OnlyDefinedEdges ==
    [][ (state' # state /\ last'.op \notin Overrides) => <<state, state'>> \in Edges ]_vars

\* a late success arrives while the breaker is OPEN and a sibling is in flight
C7_Witness ==
    /\ last.op = "onSuccess"
    /\ state = "OPEN"
    /\ InFlight # {}
    /\ hist.overlap

\* C8: as long as no reset happens, once every admitted call has completed,
\* totalRequests = calls admitted, successCount = calls succeeded, failureCount =
\* calls failed, whatever the interleaving.
C8_EachCallCountedOnce ==
    ~hist.tainted =>
        /\ totalRequests = hist.admitted
        /\ successCount = hist.succeeded
        /\ failureCount = hist.failed
        /\ InFlight = {} => totalRequests = successCount + failureCount

C8_Witness ==
    /\ ~hist.tainted
    /\ hist.overlap
    /\ InFlight = {}
    /\ hist.succeeded > 0
    /\ hist.failed > 0
    /\ last.op \in {"onSuccess", "onFailure"}
    /\ totalRequests = admissions
    /\ admissions > 2

\* C9: when several calls were admitted concurrently while HALF_OPEN and one of
\* them fails, that failure leaves the breaker OPEN, whatever its siblings did
\* before.
C9_ProbeFailureReopens ==
    [][ \A c \in Calls :
          (c \in Probes /\ calls[c].sibling /\ last'.op = "onFailure" /\ last'.call = c)
             => state' = "OPEN" ]_vars

\* C10: in one analyzeCode() call, when consume() rejects, circuitBreaker.execute()
\* is not called, the remote call is not made, the breaker's state and counters
\* stay as they are and analyzeCode() throws the rate-limit error; the breaker's
\* gate is only ever reached by a call whose consume() resolved.
C10_RateLimitBeforeBreaker ==
    [][ \A c \in Calls :
          /\ (svc[c] = "consumeRejected" /\ svc'[c] # svc[c]) =>
                /\ last' = Did("analyzeCode", c, "rateLimit", FALSE)
                /\ observed' = "error"
                /\ calls'[c].pc = "idle"
                /\ svc'[c] = "idle"
                /\ UNCHANGED <<state, failureCount, successCount, totalRequests,
                               nextAttempt, admissions>>
          /\ (last'.op = "execute" /\ last'.call = c) => svc[c] = "consumeOk"
          /\ (calls'[c].pc = "running" /\ calls[c].pc = "idle") => svc[c] = "consumeOk" ]_vars

C10_Witness ==
    /\ last.op = "analyzeCode"
    /\ last.outcome = "rateLimit"
    /\ limiter.tokens = 0
    /\ InFlight # {}
    /\ state = "HALF_OPEN"

\* C11: analyzeCode() hands its caller the very error that the rate limiter, the
\* breaker's gate, the remote call or the response checks raised, and the handler
\* that ends a call makes exactly one metrics observation, recordSuccess for a
\* result and recordError for an error; no other handler of the call makes one.
C11_FailuresReraisedObservedOnce ==
    [][ \A c \in Calls :
          /\ (svc[c] # "idle" /\ svc'[c] = "idle") =>
                /\ svc[c] = "consumeRejected" => thrown' = "rateLimit"
                /\ svc[c] = "consumeOk" =>
                      (last'.outcome = "circuitOpen" /\ thrown' = "circuitOpen")
                /\ svc[c] = "execute" =>
                      (thrown' = last'.outcome /\ thrown' \in Responses \cup {"value"})
                /\ \A r \in Responses : AnalyzeFails(c, r) => thrown' = r
                /\ thrown' # "none"
                /\ observed' = IF thrown' = "value" THEN "success" ELSE "error"
          /\ (svc'[c] # svc[c] /\ svc'[c] # "idle") =>
                (observed' = "none" /\ thrown' = "none") ]_vars

\* a format error, re-thrown by analyzeCode(), was the failure that tripped the
\* breaker
C11_Witness ==
    /\ thrown = "invalid"
    /\ observed = "error"
    /\ last.op = "onFailure"
    /\ state = "OPEN"
    /\ failureCount = 5

\* C12: batchAnalyze() on N requests of which M fail returns N - M results, and
\* they are the successful requests in the order of the list, across chunks.
C12_BatchKeepsSuccessesInOrder ==
    batch.pc = "done" =>
        /\ Len(batch.results) = Len(batch.requests) - batch.failed
        /\ batch.results = SelectSeq(batch.requests, LAMBDA f : f \in batch.fulfilled)

C12_Witness ==
    /\ batch.pc = "done"
    /\ Len(batch.requests) = 7
    /\ batch.results = <<2, 5, 6>>
    /\ batch.failed = 4

\* C13: whatever the outcomes of the requests, a failure of every one of them
\* included, batchAnalyze() does not reject: it goes on to return a list.
C13_BatchNeverRejects ==
    /\ batch.pc \in {"idle", "chunk", "delay", "done"}
    /\ batch.pc = "done" => batch.results \in Seq(1..Len(batch.requests))
    /\ (batch.pc = "delay" /\ batch.failed > 0) => ENABLED DelayElapsed

C13_Witness ==
    /\ batch.pc = "done"
    /\ Len(batch.requests) = 7
    /\ batch.results = <<>>
    /\ batch.reasons = Settlements \ {"value"}

\* C14: RateLimiter.consume(): within one interval it succeeds while tokens are
\* left, taking one, and fails at once, without waiting, when none is left; once
\* the interval has elapsed the bucket is full again and consume() succeeds. The
\* token count stays within 0..tokensPerInterval, so at most tokensPerInterval
\* calls succeed in one interval.
C14_TokenBucket ==
    [][ \A c \in Calls :
          (svc[c] = "idle" /\ svc'[c] # "idle") =>
             /\ (now - limiter.windowStart < Interval /\ limiter.tokens = 0) =>
                    (svc'[c] = "consumeRejected" /\ limiter' = limiter)
             /\ (now - limiter.windowStart < Interval /\ limiter.tokens > 0) =>
                    /\ svc'[c] = "consumeOk"
                    /\ limiter'.tokens = limiter.tokens - 1
                    /\ limiter'.windowStart = limiter.windowStart
             /\ now - limiter.windowStart >= Interval =>
                    /\ svc'[c] = "consumeOk"
                    /\ limiter'.tokens = TokensPerInterval - 1
                    /\ limiter'.windowStart = now
             /\ now' = now
             /\ limiter.tokens \in 0..TokensPerInterval
             /\ limiter'.tokens \in 0..TokensPerInterval ]_vars

\* the last token was taken, the next call was refused, and a call made after the
\* interval had elapsed went through
C14_Witness ==
    /\ last.op = "consume"
    /\ svc[last.call] = "consumeOk"
    /\ limiter.tokens = TokensPerInterval - 1
    /\ limiter.windowStart = Interval
    /\ requests = 3
    /\ admissions = 1

\* C15: the health probe goes through CircuitBreaker.execute: while the breaker is
\* OPEN and not yet due no probe request is sent, and a failed probe adds one to
\* failureCount.
C15_HealthProbeGuarded ==
    [][ /\ (last'.op = "getModelHealth" /\ state = "OPEN" /\ nextAttempt # NoDate
               /\ now < nextAttempt) => ~last'.invoked
        /\ (last'.op = "healthAnswered" /\ last'.outcome = "unhealthy") =>
               failureCount' = failureCount + 1 ]_vars

\* C16: the confidence is 0.5 + 0.2 [issues non-empty] + 0.2 [suggestions
\* non-empty] + 0.1 [metrics has a key], at most 1.0: it lies in [0.5, 1.0], it is
\* exactly 1.0 when all three are present and exactly 0.5 when none is; undefined
\* members count as empty.
C16_ConfidenceExact ==
    (analysis.pc = "done" /\ analysis.outcome.status = "value") =>
        LET v == analysis.content.value
            c == analysis.outcome.confidence
            n == (IF NonEmpty(Member(v, "issues")) THEN 1 ELSE 0)
                 + (IF NonEmpty(Member(v, "suggestions")) THEN 1 ELSE 0)
                 + (IF NonEmpty(Member(v, "metrics")) THEN 1 ELSE 0)
        IN /\ ~FLess(c, Half)
           /\ ~FLess(One, c)
           /\ n = 3 => c = One
           /\ n = 0 => c = Half

\* C17: no content or empty content fails with the empty-response error; content
\* that is not the expected JSON object fails with the invalid-format error; a
\* JSON object yields a result that echoes fileName, language and analysisType,
\* with issues and suggestions as long as the arrays of the answer, empty when
\* absent.
C17_ResponseClassified ==
    analysis.pc = "done" =>
        LET content == analysis.content
            out == analysis.outcome
            isObject == content.t = "string" /\ content.text = "json"
                        /\ content.value.kind = "object"
        IN /\ (content.t # "string" \/ content.text = "empty") =>
                 (out.status = "error" /\ out.error = "empty")
           /\ (content.t = "string" /\ content.text # "empty" /\ ~isObject) =>
                 (out.status = "error" /\ out.error = "invalid")
           /\ isObject =>
                 /\ out.status = "value"
                 /\ out.fileName = analysis.request.fileName
                 /\ out.language = analysis.request.language
                 /\ out.analysisType = analysis.request.analysisType
                 /\ Len(out.issues) = Len(content.value.issues.items)
                 /\ Len(out.suggestions) = Len(content.value.suggestions.items)

\* C18: a failure of the operation of an admitted call adds exactly one to
\* failureCount and reaches the caller as the same error, whether the operation
\* threw before returning a promise or its promise rejected, by a timeout or
\* otherwise; a success hands the caller the operation's value.
C18_FailureCountedOnceAndRethrown ==
    [][ /\ \A c \in Calls, e \in OpErrors :
              /\ OnFailure(c, e) =>
                    /\ last'.outcome = e
                    /\ calls[c].pc = "running" /\ calls'[c].pc = "idle"
                    /\ totalRequests' = totalRequests
              /\ ExecuteThrows(c, e) =>
                    /\ last'.outcome = e
                    /\ last'.invoked
                    /\ calls'[c].pc = "idle"
                    /\ totalRequests' = totalRequests + 1
        /\ last'.op \in {"onFailure", "executeSync"} =>
              /\ failureCount' = failureCount + 1
              /\ successCount' = successCount
              /\ emitted'[Len(emitted')].type = "failure"
        /\ last'.op = "onSuccess" =>
              /\ last'.outcome = "value"
              /\ failureCount' \in {failureCount, 0} ]_vars

\* a due probe whose operation threw on the spot: OPEN -> HALF_OPEN -> OPEN in one
\* stretch, the timeout handed back to the caller
C18_Witness ==
    /\ last.op = "executeSync"
    /\ last.outcome = "timeout"
    /\ state = "OPEN"
    /\ Len(emitted) = 3
    /\ nextAttempt = now + RecoveryTimeout
    /\ now > 0

\* C19: forceOpen(), from any state and with any counters, leaves the breaker OPEN
\* with nextAttempt = now + recoveryTimeout and the counters as they were, so the
\* next execute() is rejected with the circuit-open error; forceClose() leaves it
\* CLOSED with failureCount, successCount and totalRequests 0. Each override
\* emits exactly one stateChange event.
C19_OverridesBypassTripping ==
    [][ /\ last'.op = "forceOpen" =>
              /\ state' = "OPEN"
              /\ nextAttempt' = now + 60000
              /\ UNCHANGED <<failureCount, successCount, totalRequests>>
              /\ emitted' = <<[type |-> "stateChange", from |-> state, to |-> "OPEN",
                               metrics |-> [state |-> "OPEN",
                                            failureCount |-> failureCount,
                                            successCount |-> successCount,
                                            totalRequests |-> totalRequests]]>>
        /\ (last.op = "forceOpen" /\ last'.op = "execute") =>
              /\ last'.outcome = "circuitOpen"
              /\ ~last'.invoked
              /\ UNCHANGED breaker
        /\ (last.op = "forceOpen" /\ last'.op = "tick") => now' < nextAttempt'
        /\ last'.op = "forceClose" =>
              /\ state' = "CLOSED"
              /\ failureCount' = 0
              /\ successCount' = 0
              /\ totalRequests' = 0
              /\ Len(emitted') = 1
              /\ emitted'[1].type = "stateChange"
              /\ emitted'[1].from = state
              /\ emitted'[1].to = "CLOSED" ]_vars

\* forceOpen() while a probe is in flight and the counters are far from tripping
C19_Witness ==
    /\ last.op = "forceOpen"
    /\ state = "OPEN"
    /\ emitted[1].from = "HALF_OPEN"
    /\ failureCount = 0
    /\ Probes # {}
    /\ nextAttempt = now + RecoveryTimeout

\* C20: whatever execute() calls, overrides and monitoring ticks have happened,
\* the state is one of CLOSED, OPEN, HALF_OPEN, and a new breaker is CLOSED.
C20_StateInDomain ==
    /\ state \in {"CLOSED", "OPEN", "HALF_OPEN"}
    /\ last.op = "new" => state = "CLOSED"

\* a probe in flight after an override, observed by a monitoring tick
C20_Witness ==
    /\ state = "HALF_OPEN"
    /\ last.op = "monitor"
    /\ Probes # {}
    /\ hist.tainted
    /\ admissions = MaxAdmissions

\* C21: totalRequests counts completed calls only: as long as no reset happens,
\* totalRequests = successCount + failureCount in every state, calls in flight
\* included.
C21_TotalCountsCompletedOnly ==
    ~hist.tainted => totalRequests = successCount + failureCount

\* the analyzeCode() calls of the batch that have not settled yet
BatchInFlight == {k \in 1..Len(batch.settled) : batch.settled[k] = "pending"}

BatchSettled == Cardinality(batch.fulfilled) + batch.failed

\* C22: within one batchAnalyze() call at most 5 analyzeCode() calls are in flight
\* at any time, the calls of a chunk start only when every call started before
\* has settled, failures stop neither siblings nor later chunks, and in the end
\* every request of the list was attempted exactly once, in consecutive chunks
\* of 5.
C22_ChunksOfFive ==
    [][ /\ Cardinality(BatchInFlight) <= 5
        /\ Cardinality(BatchInFlight) = Len(batch.attempts) - BatchSettled
        /\ Len(batch.attempts') > Len(batch.attempts) =>
              /\ BatchInFlight = {}
              /\ Len(batch.attempts) = BatchSettled
              /\ Len(batch.attempts') - Len(batch.attempts) <= 5
              /\ Len(batch.attempts) % 5 = 0
        /\ (batch.pc = "chunk" /\ batch'.pc \in {"done", "delay"}) =>
              BatchSettled = Len(batch.attempts)
        /\ batch'.pc = "done" => batch'.attempts = batch'.requests ]_vars

\* the second chunk is under way after a first chunk in which requests failed
C22_Witness ==
    /\ batch.pc = "chunk"
    /\ batch.i = 5
    /\ Len(batch.requests) = 7
    /\ batch.failed = 3
    /\ Cardinality(BatchInFlight) = 1
    /\ batch.attempts = batch.requests

\* C23: an analyzeCode() call whose answer has no content or cannot be parsed adds
\* one to the breaker's failureCount exactly as a failed request does, and trips
\* the breaker under the usual conditions.
C23_FormatErrorsCountAsFailures ==
    [][ \A c \in Calls :
          (svc[c] = "execute" /\ svc'[c] = "idle"
             /\ thrown' \in {"empty", "invalid", "upstream"}) =>
               /\ last'.op = "onFailure"
               /\ failureCount' = failureCount + 1
               /\ successCount' = successCount
               /\ state = "CLOSED" =>
                     (state' = "OPEN" <=> /\ failureCount' >= 5
                                          /\ totalRequests' >= 10
                                          /\ 2 * failureCount' >= totalRequests')
               /\ state = "HALF_OPEN" => state' = "OPEN" ]_vars

\* an answer without content was the failure that tripped the breaker
C23_Witness ==
    /\ thrown = "empty"
    /\ last.op = "onFailure"
    /\ state = "OPEN"
    /\ emitted[1].type = "stateChange"
    /\ emitted[1].from = "CLOSED"
    /\ failureCount = 5
    /\ totalRequests = 10

\* C24: the monitoring tick never changes the state; it sets failureCount,
\* successCount and totalRequests to 0 exactly when the breaker is CLOSED and
\* totalRequests > 1000, and otherwise leaves the counters and nextAttempt as
\* they are.
C24_MonitoringTickFrame ==
    [][ last'.op = "monitor" =>
          /\ state' = state
          /\ (state = "CLOSED" /\ totalRequests > 1000) =>
                (failureCount' = 0 /\ successCount' = 0 /\ totalRequests' = 0)
          /\ ~(state = "CLOSED" /\ totalRequests > 1000) =>
                UNCHANGED <<failureCount, successCount, totalRequests, nextAttempt>> ]_vars

\* a tick found 1001 requests on a CLOSED breaker, one of them in flight
C24_Witness ==
    /\ last.op = "monitor"
    /\ state = "CLOSED"
    /\ emitted[1].metrics.totalRequests = 1001
    /\ totalRequests = 0
    /\ InFlight # {}

EventsOfType(events, types) == {k \in 1..Len(events) : events[k].type \in types}

\* C25: the completion of an admitted call emits exactly one 'success' or
\* 'failure' event, a state change emits exactly one 'stateChange' event naming
\* the state before and the state after, a rejected call emits nothing; the
\* 'stateChange' caused by an outcome comes before the outcome's event, whose
\* snapshot shows the state and counters after the transition.
C25_EventsPerHandler ==
    [][ /\ last'.op \in {"onSuccess", "onFailure"} =>
              /\ Cardinality(EventsOfType(emitted', {"success", "failure"})) = 1
              /\ emitted'[Len(emitted')].type =
                    (IF last'.op = "onSuccess" THEN "success" ELSE "failure")
              /\ emitted'[Len(emitted')].metrics =
                    [state |-> state', failureCount |-> failureCount',
                     successCount |-> successCount', totalRequests |-> totalRequests']
              /\ state' # state =>
                    (Len(emitted') = 2 /\ emitted'[1].type = "stateChange")
              /\ (state = "HALF_OPEN" /\ last'.op = "onSuccess") =>
                    emitted'[Len(emitted')].metrics =
                       [state |-> "CLOSED", failureCount |-> 0, successCount |-> 0,
                        totalRequests |-> 0]
        /\ state' # state =>
              /\ Cardinality(EventsOfType(emitted', {"stateChange"})) = 1
              /\ \A k \in EventsOfType(emitted', {"stateChange"}) :
                    (emitted'[k].from = state /\ emitted'[k].to = state')
        /\ last'.op = "execute" =>
              /\ EventsOfType(emitted', {"success", "failure"}) = {}
              /\ last'.outcome = "circuitOpen" => emitted' = <<>> ]_vars

\* a successful probe: the 'stateChange' shows the counters of the episode, the
\* 'success' after it the counters after the reset
C25_Witness ==
    /\ last.op = "onSuccess"
    /\ Len(emitted) = 2
    /\ emitted[1].from = "HALF_OPEN"
    /\ emitted[1].metrics.successCount > 0
    /\ emitted[1].metrics.totalRequests > 10
    /\ emitted[2].type = "success"
    /\ emitted[2].metrics.totalRequests = 0

\* C26: HALF_OPEN does not keep to a single trial: an execute() call that arrives
\* while the breaker is HALF_OPEN is let in and its operation invoked, so two
\* probes can be in flight at once.
C26_HalfOpenAdmitsAll ==
    [][ /\ (state = "HALF_OPEN" /\ last'.op = "execute") =>
              /\ last'.invoked
              /\ calls'[last'.call].pc = "running"
              /\ state' = "HALF_OPEN"
              /\ totalRequests' = totalRequests + 1
        /\ state = "HALF_OPEN" => \A c \in Calls : ~ENABLED ExecuteReject(c) ]_vars

C26_Witness ==
    /\ state = "HALF_OPEN"
    /\ Cardinality(Probes) >= 2
    /\ last.op = "execute"

\* C27: in every state, whatever the interleaving of calls with resets,
\* failureCount + successCount <= totalRequests, so the error rate lies between
\* 0 and 1.
C27_CountersConsistent ==
    failureCount + successCount <= totalRequests

\* C28: the breaker leaves HALF_OPEN only when a call completes that was let in
\* while it was HALF_OPEN; the late outcome of a call let in while it was CLOSED
\* neither closes nor re-opens it.
C28_OnlyProbesLeaveHalfOpen ==
    [][ (state = "HALF_OPEN" /\ state' # "HALF_OPEN" /\ last'.op \notin Overrides) =>
          /\ last'.op \in {"onSuccess", "onFailure"}
          /\ calls[last'.call].admittedIn = "HALF_OPEN" ]_vars

\* C29: whenever the breaker is OPEN, nextAttempt is defined; it is set to the
\* instant of the entry into OPEN or of forceOpen() plus recoveryTimeout and
\* nothing moves it while the breaker stays OPEN; once the clock has reached it
\* an execute() call is let in, not rejected.
C29_OpenHasNextAttempt ==
    [][ /\ state = "OPEN" => (nextAttempt # NoDate /\ nextAttempt <= now + 60000)
        /\ state' = "OPEN" => nextAttempt' # NoDate
        /\ (state' = "OPEN" /\ (state # "OPEN" \/ last'.op = "forceOpen")) =>
              nextAttempt' = now' + 60000
        /\ (state = "OPEN" /\ state' = "OPEN" /\ last'.op # "forceOpen") =>
              nextAttempt' = nextAttempt
        /\ (state = "OPEN" /\ now >= nextAttempt) =>
              \A c \in Calls :
                  calls[c].pc = "idle" =>
                      (ENABLED ExecuteAdmit(c) /\ ~ENABLED ExecuteReject(c)) ]_vars

\* the clock went past nextAttempt while calls were rejected, and the next call
\* was let in as the probe
C29_Witness ==
    /\ state = "HALF_OPEN"
    /\ last.op = "execute"
    /\ emitted # <<>>
    /\ emitted[1].from = "OPEN"
    /\ nextAttempt # NoDate
    /\ now > nextAttempt
    /\ Cardinality(Probes) = 1

\* C30: batchAnalyze terminates: once started on a finite list, with every
\* remote call settling and every timer firing, it returns, whatever way the
\* calls settle (value, rate-limit rejection, open-circuit rejection, upstream
\* error); on an empty list it returns an empty result at once, having started
\* no analyzeCode call and no delay.
C30_BatchTerminates ==
    /\ (batch.pc \in {"chunk", "delay"}) ~> (batch.pc = "done")
    /\ [](batch.pc # "idle" /\ batch.requests = <<>> =>
            /\ batch.pc = "done"
            /\ batch.results = <<>>
            /\ batch.attempts = <<>>
            /\ batch.settled = <<>>)

\* a two-chunk batch returned after its delay although calls were turned away
\* by the rate limiter and by the open breaker
C30_Witness ==
    /\ batch.pc = "done"
    /\ Len(batch.requests) > BatchSize
    /\ Len(batch.attempts) = Len(batch.requests)
    /\ {"rateLimit", "circuitOpen"} \subseteq batch.reasons
    /\ batch.results # <<>>

====
